---- MODULE Spec2Model ----
(***************************************************************************)
(* Fourier image mixer backend: BackendAPI (backend_api.py), FourierMixer  *)
(* (classes/fourier_mixer.py) and ImageProcessor                           *)
(* (classes/image_processor.py).                                           *)
(*                                                                         *)
(* Python objects live in a heap: image_processors holds the references    *)
(* of the four current ImageProcessor objects, a FourierMixer keeps the    *)
(* references it was constructed with.  An optional value (None or x) is   *)
(* the sequence <<>> or <<x>>.  Pixel data is abstract: an image is named  *)
(* by the array it was loaded from and the operations applied to it, a     *)
(* spectrum by the image it was computed from, an output by the mixer      *)
(* that computed it.                                                       *)
(***************************************************************************)
EXTENDS Integers, Sequences, FiniteSets, TLC

VARIABLES
    heap,              \* ImageProcessor objects, by reference
    image_processors,  \* BackendAPI.image_processors: slot i is heap[image_processors[i+1]]
    mixer,             \* BackendAPI.mixer: 0 (None) or an index of mixers
    mixers,            \* every FourierMixer constructed so far
    output_images,     \* BackendAPI.output_images, ports 0 and 1
    jobs,              \* every processing_worker thread started so far
    caller,            \* the calling thread: ready, or blocked in join()
    ret                \* what the last API call returned

vars == <<heap, image_processors, mixer, mixers, output_images, jobs, caller, ret>>

----------------------------------------------------------------------------
(* Bounds of the model *)

MaxJobs == 2
MaxMixers == 2
MaxResets == 1
MaxRequests == 1  \* mix requests in one behaviour of PortSpec
MaxSlot == 1      \* the slot indices 0 .. MaxSlot are the ones the clients use
MaxDim == 3       \* masks are built for shapes of 1 .. MaxDim rows and columns
MaxPixel == 1     \* the pixels of the arrays with known content are 0 .. MaxPixel

(* Program constants *)

NumSlots == 4
NumPorts == 2

Slots == 0 .. (NumSlots - 1)
UsedSlots == 0 .. MaxSlot
Ports == 0 .. (NumPorts - 1)

None == <<>>
Some(x) == <<x>>

----------------------------------------------------------------------------
(* ImageProcessor *)

NewImageProcessor ==
    [image |-> None, fft_result |-> None, original_image |-> None, fft_cached |-> FALSE]

\* The arrays a client loads: a grayscale 2x2 array and a colour 3x2 array.
\* shape is <<rows, cols>>, ch the number of channels.
Arrays ==
    { [id |-> 1, shape |-> <<2, 2>>, ch |-> 1, resized |-> FALSE, adjusted |-> FALSE],
      [id |-> 2, shape |-> <<3, 2>>, ch |-> 3, resized |-> FALSE, adjusted |-> FALSE] }

\* image.shape of the numpy array: (rows, cols), and (rows, cols, channels)
\* for an array that has a channel axis
ArrayShape(img) == IF img.ch = 1 THEN img.shape ELSE img.shape \o <<img.ch>>

\* np.dot(image[..., :3], [0.299, 0.587, 0.114]): one channel, same rows and cols
Luminosity(img) == [img EXCEPT !.ch = 1]

\* normalisation to bytes and Image.resize((width, height), LANCZOS)
Resample(img, target_size) ==
    [img EXCEPT !.shape = <<target_size[2], target_size[1]>>, !.resized = TRUE]

\* np.fft.fftshift(np.fft.fft2(image)): the spectrum of that image, of its shape
FFT(img) == [of |-> img, shape |-> img.shape]

load_image(p, img) ==
    [p EXCEPT !.image = Some(img), !.original_image = Some(img), !.fft_cached = FALSE]

convert_to_grayscale(p) ==
    IF p.image[1].ch >= 3
    THEN [p EXCEPT !.image = Some(Luminosity(p.image[1])),
                   !.fft_cached = FALSE,
                   !.fft_result = None]
    ELSE p

resize_image(p, target_size) ==
    [p EXCEPT !.image = Some(Resample(p.image[1], target_size)),
              !.fft_cached = FALSE,
              !.fft_result = None]

compute_fft(p, force) ==
    IF p.fft_cached /\ ~force /\ p.fft_result # None
    THEN p
    ELSE [p EXCEPT !.fft_result = Some(FFT(p.image[1])), !.fft_cached = TRUE]

\* ImageProcessor.apply_brightness_contrast with a brightness / contrast pair
\* that changes the array: image = clip(image * contrast + brightness, 0, 255)
apply_brightness_contrast(p) ==
    [p EXCEPT !.image = Some([p.image[1] EXCEPT !.adjusted = TRUE])]

\* ImageProcessor.reset_to_original: image = original_image.copy(), if any
reset_to_original(p) ==
    IF p.original_image # None THEN [p EXCEPT !.image = p.original_image] ELSE p

\* get_magnitude / get_phase / get_real / get_imaginary raise without a spectrum
ProjectionFails(p) == p.fft_result = None

----------------------------------------------------------------------------
(* BackendAPI: the slots *)

Proc(i) == heap[image_processors[i + 1]]

SetProc(i, p) == [heap EXCEPT ![image_processors[i + 1]] = p]

Ret(op, success) == [op |-> op, success |-> success]

\* the call returned an array (or a result dict with 'output_array'): "zeros"
\* is an array of zeros, "flat127" an array of 127s, "array" any other array
RetArray(op, content) == [op |-> op, success |-> TRUE, output_array |-> content]

\* the call left through an exception nobody caught
Raised(op) == [op |-> op, success |-> FALSE, exception |-> TRUE]

Init ==
    /\ heap = [k \in 1 .. NumSlots |-> NewImageProcessor]
    /\ image_processors = [k \in 1 .. NumSlots |-> k]
    /\ mixer = 0
    /\ mixers = <<>>
    /\ output_images = [p \in Ports |-> None]
    /\ jobs = <<>>
    /\ caller = [pc |-> "ready", m |-> 0]
    /\ ret = Ret("init", TRUE)

Ready == caller.pc = "ready"

\* BackendAPI.load_image: load the file, then convert to grayscale
LoadImage(i, file) ==
    /\ Ready
    /\ heap' = SetProc(i, convert_to_grayscale(load_image(Proc(i), file)))
    /\ UNCHANGED <<image_processors, mixer, mixers, output_images, jobs, caller, ret>>

\* BackendAPI.load_image_from_array
LoadImageFromArray(i, image_array) ==
    /\ Ready
    /\ heap' = SetProc(i, convert_to_grayscale(load_image(Proc(i), image_array)))
    /\ UNCHANGED <<image_processors, mixer, mixers, output_images, jobs, caller, ret>>

LoadedSlots == { i \in Slots : Proc(i).image # None }

Min(S) == CHOOSE x \in S : \A y \in S : x <= y

\* BackendAPI.resize_all_images
ResizeAllImages ==
    /\ Ready
    /\ IF LoadedSlots = {}
       THEN /\ ret' = Ret("resize_all_images", FALSE)
            /\ UNCHANGED heap
       ELSE LET min_height == Min({ Proc(i).image[1].shape[1] : i \in LoadedSlots })
                min_width == Min({ Proc(i).image[1].shape[2] : i \in LoadedSlots })
                target_size == <<min_width, min_height>>
                objs == { image_processors[i + 1] : i \in LoadedSlots }
            IN  /\ heap' = [k \in DOMAIN heap |->
                               IF k \in objs
                               THEN compute_fft(resize_image(heap[k], target_size), FALSE)
                               ELSE heap[k]]
                /\ ret' = Ret("resize_all_images", TRUE)
    /\ UNCHANGED <<image_processors, mixer, mixers, output_images, jobs, caller>>

\* the references of the loaded processors, in slot order
LoadedProcessors == SelectSeq(image_processors, LAMBDA k : heap[k].image # None)

\* BackendAPI.get_status()['fft_computed']
fft_computed == { i \in Slots : Proc(i).fft_result # None }

----------------------------------------------------------------------------
(* Direct use of the ImageProcessor objects held by the API *)

\* ImageProcessor.load_image alone, without the grayscale conversion
ProcLoadImage(i, file) ==
    /\ Ready
    /\ heap' = SetProc(i, load_image(Proc(i), file))
    /\ UNCHANGED <<image_processors, mixer, mixers, output_images, jobs, caller, ret>>

ProcConvertToGrayscale(i) ==
    /\ Ready
    /\ Proc(i).image # None
    /\ heap' = SetProc(i, convert_to_grayscale(Proc(i)))
    /\ UNCHANGED <<image_processors, mixer, mixers, output_images, jobs, caller, ret>>

ProcResizeImage(i, target_size) ==
    /\ Ready
    /\ Proc(i).image # None
    /\ heap' = SetProc(i, resize_image(Proc(i), target_size))
    /\ UNCHANGED <<image_processors, mixer, mixers, output_images, jobs, caller, ret>>

ProcComputeFFT(i, force) ==
    /\ Ready
    /\ Proc(i).image # None
    /\ heap' = SetProc(i, compute_fft(Proc(i), force))
    /\ UNCHANGED <<image_processors, mixer, mixers, output_images, jobs, caller, ret>>

ProcApplyBrightnessContrast(i) ==
    /\ Ready
    /\ Proc(i).image # None
    /\ heap' = SetProc(i, apply_brightness_contrast(Proc(i)))
    /\ UNCHANGED <<image_processors, mixer, mixers, output_images, jobs, caller, ret>>

ProcResetToOriginal(i) ==
    /\ Ready
    /\ heap' = SetProc(i, reset_to_original(Proc(i)))
    /\ UNCHANGED <<image_processors, mixer, mixers, output_images, jobs, caller, ret>>

----------------------------------------------------------------------------
(* FourierMixer *)

Components == {"magnitude", "phase", "real", "imaginary"}

\* Fractions of the image (region size and position) are counted in units of
\* 1 / Unit; weights are counted in units of 0.5
Unit == 40
Half == 1

\* FourierMixer.__init__ over the given ImageProcessor references
NewFourierMixer(procs) ==
    [processors |-> procs,
     num_processors |-> Len(procs),
     mode |-> "magnitude_phase",
     weights |-> [c \in Components |-> [n \in 1 .. Len(procs) |-> 0]],
     region_enabled |-> FALSE,
     region_size |-> (3 * Unit) \div 10,
     region_x |-> Unit \div 2,
     region_y |-> Unit \div 2,
     region_width |-> (3 * Unit) \div 10,
     region_height |-> (3 * Unit) \div 10,
     per_component_region |-> [c \in Components |-> "inner"],
     target_output_port |-> 1,
     progress |-> 0,
     is_cancelled |-> FALSE,
     is_processing |-> FALSE,
     processing_thread |-> 0]

\* threading.Thread(target=processing_worker): the closure holds the mixer, the
\* callback and, for BackendAPI's async_callback, the settings' output_port
NewThread(m, callback, port) ==
    [mixer |-> m, pc |-> "w441", callback |-> callback, port |-> port,
     output |-> "unset", delivered |-> <<>>]

Alive(j) == jobs[j].pc # "done"

\* in-place accumulation mixed_fft += w * fft_result into an array of shape `into`
Broadcasts(shape, into) ==
    \A d \in 1 .. 2 : shape[d] = into[d] \/ shape[d] = 1

\* the components the mode mixes
ModeComponents(mode) ==
    IF mode = "magnitude_phase" THEN {"magnitude", "phase"} ELSE {"real", "imaginary"}

RECURSIVE SumSeq(_)
SumSeq(ws) == IF ws = <<>> THEN 0 ELSE ws[1] + SumSeq(Tail(ws))

\* a mix_components that treats weights summing to 0 as an error
MixOfRejectsZero(mx) ==
    LET active == SelectSeq(mx.processors, LAMBDA k : heap[k].fft_result # None)
        total == IF mx.mode = "magnitude_phase"
                 THEN SumSeq(mx.weights["magnitude"]) + SumSeq(mx.weights["phase"])
                 ELSE SumSeq(mx.weights["real"]) + SumSeq(mx.weights["imaginary"])
    IN  IF active = <<>> \/ total = 0 THEN "raised" ELSE "array"

\* mix_components (lines 256-284) with _mix_magnitude_phase and
\* _mix_real_imaginary: "raised" when no processor has a spectrum or a
\* spectrum of positive weight cannot be accumulated into the array shaped
\* like the first spectrum, "zeros" when the weights of the mode sum to 0,
\* else "array"
MixOf(mx) ==
    LET active == SelectSeq(mx.processors, LAMBDA k : heap[k].fft_result # None)
        all_weights == { <<c, n>> : c \in ModeComponents(mx.mode), n \in 1 .. Len(mx.processors) }
        total == IF mx.mode = "magnitude_phase"
                 THEN SumSeq(mx.weights["magnitude"]) + SumSeq(mx.weights["phase"])
                 ELSE SumSeq(mx.weights["real"]) + SumSeq(mx.weights["imaginary"])
        shape == heap[active[1]].fft_result[1].shape
    IN  IF active = <<>> THEN "raised"
        ELSE IF total = 0 THEN "zeros"
        ELSE IF \E cn \in all_weights :
                    /\ heap[mx.processors[cn[2]]].fft_result # None
                    /\ mx.weights[cn[1]][cn[2]] > 0
                    /\ ~Broadcasts(heap[mx.processors[cn[2]]].fft_result[1].shape, shape)
             THEN "raised"
        ELSE "array"

mix_components(m) == MixOf(mixers[m])

\* compute_ifft leaves through its except clause (line 425)
MixRaises(m) == mix_components(m) = "raised"

\* the array compute_ifft returns, as stored in an output port
OutputOf(m) == [mixer |-> m, adjusted |-> FALSE]

cancel_operation(ms, m) ==
    IF ms[m].is_processing THEN [ms EXCEPT ![m].is_cancelled = TRUE] ELSE ms

\* mix_and_compute_async on mixer m of ms, up to join() or Thread.start()
mix_and_compute_async(ms, m, callback, port) ==
    LET cancelled == IF ms[m].is_processing THEN cancel_operation(ms, m) ELSE ms
        joins == /\ ms[m].is_processing
                 /\ ms[m].processing_thread # 0
                 /\ Alive(ms[m].processing_thread)
    IN  IF joins
        THEN /\ mixers' = cancelled
             /\ caller' = [pc |-> "join", m |-> m]
             /\ UNCHANGED jobs
        ELSE /\ mixers' = [cancelled EXCEPT ![m].processing_thread = Len(jobs) + 1]
             /\ jobs' = Append(jobs, NewThread(m, callback, port))
             /\ UNCHANGED caller

\* a client holding a FourierMixer starts a job on it with its own callback
MixAndComputeAsync(m) ==
    /\ Ready
    /\ Len(jobs) < MaxJobs
    /\ mix_and_compute_async(mixers, m, "client", 0)
    /\ UNCHANGED <<heap, image_processors, mixer, output_images, ret>>

\* processing_thread.join(timeout=1.0) returns, the thread ended or not; then
\* the new thread is created and started
JoinReturns ==
    /\ caller.pc = "join"
    /\ mixers' = [mixers EXCEPT ![caller.m].processing_thread = Len(jobs) + 1]
    /\ jobs' = Append(jobs, NewThread(caller.m, "client", 0))
    /\ caller' = [pc |-> "ready", m |-> 0]
    /\ UNCHANGED <<heap, image_processors, mixer, output_images, ret>>

\* a client holding a FourierMixer calls cancel_operation
CancelOperation(m) ==
    /\ Ready
    /\ mixers' = cancel_operation(mixers, m)
    /\ UNCHANGED <<heap, image_processors, mixer, output_images, jobs, caller, ret>>

\* a client constructs FourierMixer(processors) over the loaded processors;
\* __init__ raises for an empty list (lines 22-23) and validates the sizes
Construct ==
    /\ Ready
    /\ IF LoadedProcessors = <<>>
       THEN /\ ret' = Ret("FourierMixer", FALSE)
            /\ UNCHANGED mixers
       ELSE /\ mixers' = Append(mixers, NewFourierMixer(LoadedProcessors))
            /\ ret' = Ret("FourierMixer", TRUE)
    /\ UNCHANGED <<heap, image_processors, mixer, output_images, jobs, caller>>

\* a set_weights that does not test the sign of the entries
set_weights_any_sign(mx, component_type, weights) ==
    IF component_type \notin Components \/ Len(weights) # mx.num_processors
    THEN mx
    ELSE [mx EXCEPT !.weights[component_type] = weights]

\* FourierMixer.set_weights
set_weights(mx, component_type, weights) ==
    IF \/ component_type \notin Components
       \/ Len(weights) # mx.num_processors
       \/ \E n \in 1 .. Len(weights) : weights[n] < 0
    THEN mx
    ELSE [mx EXCEPT !.weights[component_type] = weights]

set_weights_raises(mx, component_type, weights) ==
    \/ component_type \notin Components
    \/ Len(weights) # mx.num_processors
    \/ \E n \in 1 .. Len(weights) : weights[n] < 0

SetWeights(m, component_type, weights) ==
    /\ Ready
    /\ m \in DOMAIN mixers
    /\ mixers' = [mixers EXCEPT ![m] = set_weights(mixers[m], component_type, weights)]
    /\ ret' = Ret("set_weights", ~set_weights_raises(mixers[m], component_type, weights))
    /\ UNCHANGED <<heap, image_processors, mixer, output_images, jobs, caller>>

\* FourierMixer.set_mode: raises for an unknown mode
set_mode_raises(mode) == mode \notin {"magnitude_phase", "real_imaginary"}

set_mode(mx, mode) == IF set_mode_raises(mode) THEN mx ELSE [mx EXCEPT !.mode = mode]

\* FourierMixer.set_output_port: raises unless the port number is 1 or 2
set_output_port_raises(port_number) == port_number \notin {1, 2}

set_output_port(mx, port_number) ==
    IF set_output_port_raises(port_number) THEN mx
    ELSE [mx EXCEPT !.target_output_port = port_number]

InUnit(v) == 0 <= v /\ v <= Unit

\* The arguments of set_region: size, x, y, width, height are None or Some
\* fraction; region_type is [kind |-> "str", value |-> a string] or
\* [kind |-> "dict", value |-> a function from component names to strings]
RegionArgs(size, region_type, enabled, x, y, width, height) ==
    [size |-> size, region_type |-> region_type, enabled |-> enabled,
     x |-> x, y |-> y, width |-> width, height |-> height]

StrType(t) == [kind |-> "str", value |-> t]
DictType(f) == [kind |-> "dict", value |-> f]

\* set_region lines 118-129: width and height together, else size
set_region_size(st, a) ==
    IF a.width # None /\ a.height # None
    THEN IF ~(InUnit(a.width[1]) /\ InUnit(a.height[1]))
         THEN [st EXCEPT !.raised = TRUE]
         ELSE [st EXCEPT !.mx.region_width = a.width[1],
                         !.mx.region_height = a.height[1],
                         !.mx.region_size = (a.width[1] + a.height[1]) \div 2]
    ELSE IF a.size # None
    THEN IF ~InUnit(a.size[1])
         THEN [st EXCEPT !.raised = TRUE]
         ELSE [st EXCEPT !.mx.region_size = a.size[1],
                         !.mx.region_width = a.size[1],
                         !.mx.region_height = a.size[1]]
    ELSE st

\* set_region lines 132-139: x, then y
set_region_x(st, a) ==
    IF st.raised \/ a.x = None THEN st
    ELSE IF ~InUnit(a.x[1]) THEN [st EXCEPT !.raised = TRUE]
    ELSE [st EXCEPT !.mx.region_x = a.x[1]]

set_region_y(st, a) ==
    IF st.raised \/ a.y = None THEN st
    ELSE IF ~InUnit(a.y[1]) THEN [st EXCEPT !.raised = TRUE]
    ELSE [st EXCEPT !.mx.region_y = a.y[1]]

\* set_region lines 142-154: the region type(s), then line 156: enabled
set_region_type(st, a) ==
    IF st.raised THEN st
    ELSE IF a.region_type.kind = "dict"
    THEN IF \E c \in DOMAIN a.region_type.value :
                a.region_type.value[c] \notin {"inner", "outer"}
         THEN [st EXCEPT !.raised = TRUE]
         ELSE [st EXCEPT !.mx.per_component_region =
                             [c \in Components |->
                                 IF c \in DOMAIN a.region_type.value
                                 THEN a.region_type.value[c]
                                 ELSE @[c]],
                         !.mx.region_enabled = a.enabled]
    ELSE IF a.region_type.value \notin {"inner", "outer"}
         THEN [st EXCEPT !.raised = TRUE]
         ELSE [st EXCEPT !.mx.per_component_region =
                             [c \in Components |-> a.region_type.value],
                         !.mx.region_enabled = a.enabled]

\* FourierMixer.set_region: the mixer it leaves, and whether it raised
set_region(mx, a) ==
    set_region_type(
        set_region_y(set_region_x(set_region_size([mx |-> mx, raised |-> FALSE], a), a), a), a)

SetMode(m, mode) ==
    /\ Ready
    /\ m \in DOMAIN mixers
    /\ mixers' = [mixers EXCEPT ![m] = set_mode(mixers[m], mode)]
    /\ ret' = Ret("set_mode", ~set_mode_raises(mode))
    /\ UNCHANGED <<heap, image_processors, mixer, output_images, jobs, caller>>

SetRegion(m, a) ==
    /\ Ready
    /\ m \in DOMAIN mixers
    /\ mixers' = [mixers EXCEPT ![m] = set_region(mixers[m], a).mx]
    /\ ret' = Ret("set_region", ~set_region(mixers[m], a).raised)
    /\ UNCHANGED <<heap, image_processors, mixer, output_images, jobs, caller>>

Maximum(a, b) == IF a >= b THEN a ELSE b
Minimum(a, b) == IF a <= b THEN a ELSE b

\* int(n * f) for a fraction f >= 0 held in units of 1 / Unit
IntOf(n, f) == (n * f) \div Unit

\* the bins of an array of that shape
Bins(shape) == (0 .. shape[1] - 1) \X (0 .. shape[2] - 1)

\* create_frequency_mask lines 212-229: the rectangle rows
\* row_start .. row_end - 1 and columns col_start .. col_end - 1
Rectangle(mx, shape) ==
    LET rows == shape[1]
        cols == shape[2]
        region_rows == Maximum(1, IntOf(rows, mx.region_height))
        region_cols == Maximum(1, IntOf(cols, mx.region_width))
        center_row == IntOf(rows, mx.region_y)
        center_col == IntOf(cols, mx.region_x)
    IN  [row_start |-> Maximum(0, center_row - region_rows \div 2),
         row_end |-> Minimum(rows, center_row + region_rows \div 2),
         col_start |-> Maximum(0, center_col - region_cols \div 2),
         col_end |-> Minimum(cols, center_col + region_cols \div 2)]

\* mask[row_start:row_end, col_start:col_end] covers the bin
InSlice(rect, bin) ==
    /\ rect.row_start <= bin[1] /\ bin[1] < rect.row_end
    /\ rect.col_start <= bin[2] /\ bin[2] < rect.col_end

\* a mask whose rectangle also holds the row row_end and the column col_end
create_frequency_mask_inclusive(mx, shape, region_type) ==
    IF ~mx.region_enabled THEN [bin \in Bins(shape) |-> 1]
    ELSE LET rect == Rectangle(mx, shape)
             wide == [rect EXCEPT !.row_end = @ + 1, !.col_end = @ + 1]
         IN  IF region_type = "outer"
             THEN [bin \in Bins(shape) |-> IF InSlice(rect, bin) THEN 0 ELSE 1]
             ELSE [bin \in Bins(shape) |-> IF InSlice(wide, bin) THEN 1 ELSE 0]

\* create_frequency_mask(shape, region_type)
create_frequency_mask(mx, shape, region_type) ==
    IF ~mx.region_enabled THEN [bin \in Bins(shape) |-> 1]
    ELSE LET t == IF region_type \notin {"inner", "outer"} THEN "inner" ELSE region_type
             rect == Rectangle(mx, shape)
         IN  IF t = "inner"
             THEN [bin \in Bins(shape) |-> IF InSlice(rect, bin) THEN 1 ELSE 0]
             ELSE [bin \in Bins(shape) |-> IF InSlice(rect, bin) THEN 0 ELSE 1]

\* the shape of the first processor of the mixer that has a spectrum
FirstShape(mx) ==
    LET valid == SelectSeq(mx.processors, LAMBDA k : heap[k].fft_result # None)
    IN  IF valid = <<>> THEN None ELSE Some(heap[valid[1]].fft_result[1].shape)

\* get_mask_visualization: create_frequency_mask(shape) with the default
\* region_type 'inner', times 255
get_mask_visualization(mx) ==
    IF FirstShape(mx) = None THEN None
    ELSE LET mask == create_frequency_mask(mx, FirstShape(mx)[1], "inner")
         IN  Some([bin \in DOMAIN mask |-> mask[bin] * 255])

GetMaskVisualization(m) ==
    /\ Ready
    /\ m \in DOMAIN mixers
    /\ ret' = [op |-> "get_mask_visualization", success |-> TRUE,
               mask |-> get_mask_visualization(mixers[m])]
    /\ UNCHANGED <<heap, image_processors, mixer, mixers, output_images, jobs, caller>>

\* Arrays with known pixels. They have at most 2 rows and 2 columns, so that
\* the kernel of the discrete Fourier transform is +1 / -1 and every spectrum
\* is real; px maps a bin <<row, col>> to the pixel.
PixelArrays ==
    { [id |-> 0, shape |-> <<2, 2>>, ch |-> 1, resized |-> FALSE, adjusted |-> FALSE,
       px |-> f] : f \in [Bins(<<2, 2>>) -> 0 .. MaxPixel] }

\* complex numbers with integer parts
Cx(re, im) == [re |-> re, im |-> im]

RECURSIVE SumOver(_, _)
SumOver(f, S) ==
    IF S = {} THEN 0
    ELSE LET x == CHOOSE y \in S : TRUE IN f[x] + SumOver(f, S \ {x})

\* exp(-2 pi i k / 2) and exp(2 pi i k / 2)
Kernel(k) == IF k % 2 = 0 THEN 1 ELSE -1

\* np.fft.fft2 of a real array of at most 2 rows and columns
fft2(px, shape) ==
    [uv \in Bins(shape) |->
        Cx(SumOver([rc \in Bins(shape) |-> px[rc] * Kernel(uv[1] * rc[1] + uv[2] * rc[2])],
                   Bins(shape)), 0)]

\* np.fft.fftshift: roll every axis by n // 2
fftshift(F, shape) ==
    [uv \in Bins(shape) |->
        F[<<(uv[1] + shape[1] - shape[1] \div 2) % shape[1],
            (uv[2] + shape[2] - shape[2] \div 2) % shape[2]>>]]

\* np.fft.ifftshift: roll every axis by -(n // 2)
ifftshift(F, shape) ==
    [uv \in Bins(shape) |->
        F[<<(uv[1] + shape[1] \div 2) % shape[1],
            (uv[2] + shape[2] \div 2) % shape[2]>>]]

\* the values of the spectrum compute_fft stores (line 141)
SpectrumBins(spectrum) ==
    LET F == fft2(spectrum.of.px, spectrum.shape)
    IN  fftshift(F, spectrum.shape)

\* np.abs of a value on an axis of the complex plane
Abs(z) == IF z.im = 0 THEN (IF z.re >= 0 THEN z.re ELSE -z.re)
          ELSE (IF z.im >= 0 THEN z.im ELSE -z.im)

\* a phase that is 0 for every value
AngleAlwaysZero(z) == 0

\* np.angle of a real value in units of pi: 0, or pi for a negative value
AngleOf(z) == IF z.re < 0 THEN 1 ELSE 0

\* magnitude * exp(1j * phase), phase in units of pi / 2
Polar(magnitude, phase) ==
    LET k == phase % 4
    IN  IF k = 0 THEN Cx(magnitude, 0)
        ELSE IF k = 1 THEN Cx(0, magnitude)
        ELSE IF k = 2 THEN Cx(-magnitude, 0)
        ELSE Cx(0, -magnitude)

\* np.real(np.fft.ifft2(F)) for at most 2 rows and columns: the kernel is
\* +1 / -1 again, the sum is divided by the number of bins
ifft2_sum(F, shape) ==
    [rc \in Bins(shape) |->
        SumOver([uv \in Bins(shape) |-> F[uv].re * Kernel(uv[1] * rc[1] + uv[2] * rc[2])],
                Bins(shape))]

ifft2_real(F, shape) ==
    [rc \in Bins(shape) |-> ifft2_sum(F, shape)[rc] \div (shape[1] * shape[2])]

\* tests/test_verification.py lines 30-38: magnitude * exp(1j * phase) of the
\* processor's spectrum, un-shifted, inverse transformed, real part
Reconstructed(p) ==
    LET spectrum == p.fft_result[1]
        F == SpectrumBins(spectrum)
        reconstructed_fft ==
            [uv \in Bins(spectrum.shape) |-> Polar(Abs(F[uv]), 2 * AngleOf(F[uv]))]
    IN  ifft2_real(ifftshift(reconstructed_fft, spectrum.shape), spectrum.shape)

\* test_perfect_reconstruction on slot i, after the image is loaded
PerfectReconstruction(i) ==
    /\ Ready
    /\ Proc(i).fft_result # None
    /\ ret' = Ret("test_perfect_reconstruction",
                  Reconstructed(Proc(i)) = Proc(i).fft_result[1].of.px)
    /\ UNCHANGED <<heap, image_processors, mixer, mixers, output_images, jobs, caller>>

\* the positions of the processors of mx that have a spectrum and a positive
\* weight for the component
Contributors(mx, component) ==
    { n \in 1 .. Len(mx.processors) :
        heap[mx.processors[n]].fft_result # None /\ mx.weights[component][n] > 0 }

\* _mix_magnitude_phase lines 293-304: the weighted sum of the complex
\* spectra, times the mask of the 'magnitude' region type; values in units of
\* 0.5 like the weights
direct_mix(mx, shape) ==
    LET mask == create_frequency_mask(mx, shape, mx.per_component_region["magnitude"])
        S == Contributors(mx, "magnitude")
        F == [n \in S |-> SpectrumBins(heap[mx.processors[n]].fft_result[1])]
        part(bin, re) ==
            SumOver([n \in S |->
                        mx.weights["magnitude"][n]
                            * (IF re THEN F[n][bin].re ELSE F[n][bin].im)], S)
    IN  [bin \in Bins(shape) |-> Cx(part(bin, TRUE) * mask[bin], part(bin, FALSE) * mask[bin])]

\* _mix_magnitude_phase lines 306-338: the masked weighted sum of the
\* magnitudes and the masked weighted sum of the phases, recombined
separate_mix(mx, shape) ==
    LET mag_mask == create_frequency_mask(mx, shape, mx.per_component_region["magnitude"])
        phase_mask == create_frequency_mask(mx, shape, mx.per_component_region["phase"])
        SM == Contributors(mx, "magnitude")
        SP == Contributors(mx, "phase")
        F == [n \in SM \cup SP |-> SpectrumBins(heap[mx.processors[n]].fft_result[1])]
        mixed_magnitude(bin) ==
            SumOver([n \in SM |-> mx.weights["magnitude"][n] * Abs(F[n][bin])], SM)
                * mag_mask[bin]
        mixed_phase(bin) ==
            SumOver([n \in SP |-> mx.weights["phase"][n] * AngleOf(F[n][bin])], SP)
                * phase_mask[bin]
    IN  [bin \in Bins(shape) |-> Polar(mixed_magnitude(bin), mixed_phase(bin))]

\* _mix_magnitude_phase: the direct path when np.allclose(mag_weights,
\* phase_weights), else the separate path
mix_magnitude_phase(mx, shape) ==
    IF mx.weights["magnitude"] = mx.weights["phase"]
    THEN direct_mix(mx, shape)
    ELSE separate_mix(mx, shape)

\* _mix_real_imaginary
mix_real_imaginary(mx, shape) ==
    LET real_mask == create_frequency_mask(mx, shape, mx.per_component_region["real"])
        imag_mask == create_frequency_mask(mx, shape, mx.per_component_region["imaginary"])
        SR == Contributors(mx, "real")
        SI == Contributors(mx, "imaginary")
        F == [n \in SR \cup SI |-> SpectrumBins(heap[mx.processors[n]].fft_result[1])]
    IN  [bin \in Bins(shape) |->
            Cx(SumOver([n \in SR |-> mx.weights["real"][n] * F[n][bin].re], SR)
                   * real_mask[bin],
               SumOver([n \in SI |-> mx.weights["imaginary"][n] * F[n][bin].im], SI)
                   * imag_mask[bin])]

\* mix_components over spectra with known values: None for the ValueError
MixedSpectrum(mx) ==
    IF MixOf(mx) = "raised" THEN None
    ELSE LET shape == FirstShape(mx)[1]
         IN  IF MixOf(mx) = "zeros" THEN Some([bin \in Bins(shape) |-> Cx(0, 0)])
             ELSE IF mx.mode = "magnitude_phase" THEN Some(mix_magnitude_phase(mx, shape))
             ELSE Some(mix_real_imaginary(mx, shape))

\* a client calls mix_components on a mixer whose spectra have known values
MixSpectrum(m) ==
    /\ Ready
    /\ m \in DOMAIN mixers
    /\ ret' = IF MixedSpectrum(mixers[m]) = None
              THEN Ret("mix_components", FALSE)
              ELSE [op |-> "mix_components", success |-> TRUE,
                    spectrum |-> MixedSpectrum(mixers[m])[1]]
    /\ UNCHANGED <<heap, image_processors, mixer, mixers, output_images, jobs, caller>>

\* a rational number, numerator over a positive denominator
Frac(num, den) == [num |-> num, den |-> den]

\* array.min() and array.max()
Lowest(y) == LET V == { y[rc] : rc \in DOMAIN y } IN CHOOSE v \in V : \A w \in V : v <= w
Highest(y) == LET V == { y[rc] : rc \in DOMAIN y } IN CHOOSE v \in V : \A w \in V : v >= w

\* a normalisation that scales without subtracting the minimum
NormalizeNoShift(y) ==
    LET hi == Highest(y)
    IN  IF hi > 0 THEN [rc \in DOMAIN y |-> Frac(255 * y[rc], hi)]
        ELSE [rc \in DOMAIN y |-> Frac(y[rc], 1)]

\* compute_ifft lines 415-417 on values: output - min, then / max * 255.0
\* when max > 0
NormalizeValues(y) ==
    LET lo == Lowest(y)
        hi == Highest(y) - lo
    IN  IF hi > 0
        THEN [rc \in DOMAIN y |-> Frac(255 * (y[rc] - lo), hi)]
        ELSE [rc \in DOMAIN y |-> Frac(y[rc] - lo, 1)]

\* compute_ifft lines 397-412 on values: the real part of
\* ifft2(ifftshift(mixed_fft)), counted in units of 1 / (2 * rows * cols),
\* that is without the division of ifft2 and with the weights' unit 0.5
InverseImage(mx) ==
    LET shape == FirstShape(mx)[1]
    IN  ifft2_sum(ifftshift(MixedSpectrum(mx)[1], shape), shape)

\* the image a compute_ifft that is not cancelled returns; None when
\* mix_components raises
OutputImage(mx) ==
    IF MixOf(mx) = "raised" THEN None ELSE Some(NormalizeValues(InverseImage(mx)))

\* a client calls compute_ifft on a mixer whose spectra have known values
ComputeImage(m) ==
    /\ Ready
    /\ m \in DOMAIN mixers
    /\ IF MixOf(mixers[m]) = "raised"
       THEN /\ mixers' = [mixers EXCEPT ![m].progress = 10, ![m].is_cancelled = FALSE]
            /\ ret' = Ret("compute_ifft", FALSE)
       ELSE /\ mixers' = [mixers EXCEPT ![m].progress = 100, ![m].is_cancelled = FALSE]
            /\ ret' = [op |-> "compute_ifft", success |-> TRUE,
                       output_image |-> OutputImage(mixers[m])[1]]
    /\ UNCHANGED <<heap, image_processors, mixer, output_images, jobs, caller>>

\* np.fft.ifft2(np.fft.ifftshift(mixed_fft)) and its real part: zeros for zeros
Inverse(content) == content

\* compute_ifft lines 415-417: subtract the minimum, and scale by 255 / max
\* only when the maximum is positive
Normalize(content) == IF content = "zeros" THEN "zeros" ELSE "array"

\* ComponentVisualizer.normalize_for_display(array, 0, 255).astype(np.uint8):
\* an array whose values are all the same becomes (0 + 255) / 2, as bytes 127
normalize_for_display(content) == IF content \in {"zeros", "flat127"} THEN "flat127" ELSE "array"

\* a client calls mix_components in its own thread
MixComponents(m) ==
    /\ Ready
    /\ m \in DOMAIN mixers
    /\ ret' = IF mix_components(m) = "raised"
              THEN Ret("mix_components", FALSE)
              ELSE RetArray("mix_components", mix_components(m))
    /\ UNCHANGED <<heap, image_processors, mixer, mixers, output_images, jobs, caller>>

\* a compute_ifft whose mix accumulates into the first processor's spectrum
\* instead of a new array
ComputeIfftInPlace(m) ==
    /\ Ready
    /\ m \in DOMAIN mixers
    /\ IF mix_components(m) = "raised"
       THEN /\ mixers' = [mixers EXCEPT ![m].progress = 10, ![m].is_cancelled = FALSE]
            /\ ret' = Ret("compute_ifft", FALSE)
            /\ UNCHANGED heap
       ELSE /\ mixers' = [mixers EXCEPT ![m].progress = 100, ![m].is_cancelled = FALSE]
            /\ ret' = RetArray("compute_ifft", Normalize(Inverse(mix_components(m))))
            /\ heap' = [heap EXCEPT ![mixers[m].processors[1]].fft_result =
                                        Some([@[1] EXCEPT !.of.adjusted = TRUE])]
    /\ UNCHANGED <<image_processors, mixer, output_images, jobs, caller>>

\* a client calls compute_ifft in its own thread
ComputeIfft(m) ==
    /\ Ready
    /\ m \in DOMAIN mixers
    /\ IF mix_components(m) = "raised"
       THEN /\ mixers' = [mixers EXCEPT ![m].progress = 10, ![m].is_cancelled = FALSE]
            /\ ret' = Ret("compute_ifft", FALSE)
       ELSE /\ mixers' = [mixers EXCEPT ![m].progress = 100, ![m].is_cancelled = FALSE]
            /\ ret' = RetArray("compute_ifft", Normalize(Inverse(mix_components(m))))
    /\ UNCHANGED <<heap, image_processors, mixer, output_images, jobs, caller>>

get_progress(m) == mixers[m].progress

is_busy(m) == mixers[m].is_processing

----------------------------------------------------------------------------
(* processing_worker: one action per step of the thread *)

At(j, pc) == j \in DOMAIN jobs /\ jobs[j].pc = pc

Goto(j, pc) == [jobs EXCEPT ![j].pc = pc]

\* line 441: self.is_processing = True
WorkerBegin(j) ==
    /\ At(j, "w441")
    /\ mixers' = [mixers EXCEPT ![jobs[j].mixer].is_processing = TRUE]
    /\ jobs' = Goto(j, "w442")
    /\ UNCHANGED <<heap, image_processors, mixer, output_images, caller, ret>>

\* line 442: self.is_cancelled = False
WorkerReset(j) ==
    /\ At(j, "w442")
    /\ mixers' = [mixers EXCEPT ![jobs[j].mixer].is_cancelled = FALSE]
    /\ jobs' = Goto(j, "c380")
    /\ UNCHANGED <<heap, image_processors, mixer, output_images, caller, ret>>

\* compute_ifft lines 380-381: progress = 0, is_cancelled = False
IfftBegin(j) ==
    /\ At(j, "c380")
    /\ mixers' = [mixers EXCEPT ![jobs[j].mixer].progress = 0,
                                ![jobs[j].mixer].is_cancelled = FALSE]
    /\ jobs' = Goto(j, "c386")
    /\ UNCHANGED <<heap, image_processors, mixer, output_images, caller, ret>>

\* lines 386-387: progress = 10, then mix_components; an exception leaves
\* compute_ifft and is caught by the worker's except clause (line 450)
IfftMix(j) ==
    /\ At(j, "c386")
    /\ mixers' = [mixers EXCEPT ![jobs[j].mixer].progress = 10]
    /\ jobs' = IF MixRaises(jobs[j].mixer)
               THEN [jobs EXCEPT ![j].pc = "w453", ![j].output = "raised"]
               ELSE Goto(j, "c389")
    /\ UNCHANGED <<heap, image_processors, mixer, output_images, caller, ret>>

\* lines 389-394: the post-mix checkpoint, then progress = 50
IfftCheckpoint1(j) ==
    /\ At(j, "c389")
    /\ IF mixers[jobs[j].mixer].is_cancelled
       THEN /\ jobs' = [jobs EXCEPT ![j].pc = "w447", ![j].output = "None"]
            /\ UNCHANGED mixers
       ELSE /\ mixers' = [mixers EXCEPT ![jobs[j].mixer].progress = 50]
            /\ jobs' = Goto(j, "c400")
    /\ UNCHANGED <<heap, image_processors, mixer, output_images, caller, ret>>

\* lines 397-402: ifftshift, progress = 70, ifft2
IfftInverse(j) ==
    /\ At(j, "c400")
    /\ mixers' = [mixers EXCEPT ![jobs[j].mixer].progress = 70]
    /\ jobs' = Goto(j, "c404")
    /\ UNCHANGED <<heap, image_processors, mixer, output_images, caller, ret>>

\* lines 404-409: the post-inverse-transform checkpoint, then progress = 90
IfftCheckpoint2(j) ==
    /\ At(j, "c404")
    /\ IF mixers[jobs[j].mixer].is_cancelled
       THEN /\ jobs' = [jobs EXCEPT ![j].pc = "w447", ![j].output = "None"]
            /\ UNCHANGED mixers
       ELSE /\ mixers' = [mixers EXCEPT ![jobs[j].mixer].progress = 90]
            /\ jobs' = Goto(j, "c412")
    /\ UNCHANGED <<heap, image_processors, mixer, output_images, caller, ret>>

\* lines 412-423: normalise, progress = 100, return the output image
IfftNormalize(j) ==
    /\ At(j, "c412")
    /\ mixers' = [mixers EXCEPT ![jobs[j].mixer].progress = 100]
    /\ jobs' = [jobs EXCEPT ![j].pc = "w447", ![j].output = "array"]
    /\ UNCHANGED <<heap, image_processors, mixer, output_images, caller, ret>>

\* line 447: if not self.is_cancelled and callback
WorkerCallbackCheck(j) ==
    /\ At(j, "w447")
    /\ jobs' = IF mixers[jobs[j].mixer].is_cancelled
               THEN Goto(j, "w453")
               ELSE Goto(j, "w448")
    /\ UNCHANGED <<heap, image_processors, mixer, mixers, output_images, caller, ret>>

\* an async_callback that stores the output in the port the job does not target
AsyncCallbackOtherPort(j) ==
    /\ At(j, "w448")
    /\ jobs[j].callback = "async_callback"
    /\ output_images' =
           [output_images EXCEPT ![1 - jobs[j].port] = Some(OutputOf(jobs[j].mixer))]
    /\ jobs' = [jobs EXCEPT ![j].pc = "w453", ![j].delivered = Append(@, "success")]
    /\ UNCHANGED <<heap, image_processors, mixer, mixers, caller, ret>>

\* line 448 with BackendAPI.mix_images_async's async_callback (lines 457-479):
\* store a real output in the settings' port, then hand the result to the
\* caller's callback
AsyncCallback(j) ==
    /\ At(j, "w448")
    /\ jobs[j].callback = "async_callback"
    /\ IF jobs[j].output # "None"
       THEN /\ output_images' =
                   [output_images EXCEPT ![jobs[j].port] = Some(OutputOf(jobs[j].mixer))]
            /\ jobs' = [jobs EXCEPT ![j].pc = "w453",
                                    ![j].delivered = Append(@, "success")]
       ELSE /\ jobs' = [jobs EXCEPT ![j].pc = "w453",
                                    ![j].delivered = Append(@, "cancelled")]
            /\ UNCHANGED output_images
    /\ UNCHANGED <<heap, image_processors, mixer, mixers, caller, ret>>

\* line 448 with a client's own callback(output, target_output_port)
ClientCallback(j) ==
    /\ At(j, "w448")
    /\ jobs[j].callback = "client"
    /\ jobs' = [jobs EXCEPT ![j].pc = "w453",
                            ![j].delivered = Append(@, jobs[j].output)]
    /\ UNCHANGED <<heap, image_processors, mixer, mixers, output_images, caller, ret>>

\* a worker without the finally clause: the thread ends, the flag stays
WorkerExitsBusy(j) ==
    /\ At(j, "w453")
    /\ jobs' = Goto(j, "done")
    /\ UNCHANGED <<heap, image_processors, mixer, mixers, output_images, caller, ret>>

\* line 453, the finally clause: self.is_processing = False; the thread ends
WorkerFinally(j) ==
    /\ At(j, "w453")
    /\ mixers' = [mixers EXCEPT ![jobs[j].mixer].is_processing = FALSE]
    /\ jobs' = Goto(j, "done")
    /\ UNCHANGED <<heap, image_processors, mixer, output_images, caller, ret>>

Worker(j) ==
    \/ WorkerBegin(j)
    \/ WorkerReset(j)
    \/ IfftBegin(j)
    \/ IfftMix(j)
    \/ IfftCheckpoint1(j)
    \/ IfftInverse(j)
    \/ IfftCheckpoint2(j)
    \/ IfftNormalize(j)
    \/ WorkerCallbackCheck(j)
    \/ WorkerFinally(j)

----------------------------------------------------------------------------
(* BackendAPI: mixing *)

\* the weights mix_images and mix_images_async set without 'weights' in the
\* settings: 0.5 for every loaded slot, for the two components of the default
\* mode
DefaultWeights(procs) ==
    [c \in Components |->
        [n \in 1 .. Len(procs) |-> IF c \in ModeComponents("magnitude_phase") THEN Half ELSE 0]]

\* BackendAPI.mix_images_async with settings {'output_port': port} and the
\* defaults for everything else
MixImagesAsync(port) ==
    /\ Ready
    /\ IF LoadedProcessors = <<>>
       THEN /\ ret' = Ret("mix_images_async", FALSE)
            /\ UNCHANGED <<mixer, mixers, jobs, caller>>
       ELSE /\ mixer' = Len(mixers) + 1
            /\ mix_and_compute_async(
                   Append(mixers, [NewFourierMixer(LoadedProcessors)
                                      EXCEPT !.weights = DefaultWeights(LoadedProcessors),
                                             !.target_output_port = port + 1]),
                   Len(mixers) + 1, "async_callback", port)
            /\ ret' = Ret("mix_images_async", TRUE)
    /\ UNCHANGED <<heap, image_processors, output_images>>

\* BackendAPI.get_mixing_progress
get_mixing_progress ==
    IF mixer = 0
    THEN [progress |-> 0, is_processing |-> FALSE]
    ELSE [progress |-> get_progress(mixer), is_processing |-> mixers[mixer].is_processing]

\* BackendAPI.cancel_mixing
CancelMixing ==
    /\ Ready
    /\ IF mixer # 0 /\ mixers[mixer].is_processing
       THEN /\ mixers' = cancel_operation(mixers, mixer)
            /\ ret' = Ret("cancel_mixing", TRUE)
       ELSE /\ ret' = Ret("cancel_mixing", FALSE)
            /\ UNCHANGED mixers
    /\ UNCHANGED <<heap, image_processors, mixer, output_images, jobs, caller>>

\* BackendAPI.mix_images with settings {'output_port': port}: the whole of
\* compute_ifft runs in the calling thread
MixImages(port) ==
    /\ Ready
    /\ IF \/ LoadedProcessors = <<>>
          \/ \E n \in 1 .. Len(LoadedProcessors) : heap[LoadedProcessors[n]].fft_result = None
          \/ \E n \in 1 .. Len(LoadedProcessors) :
                ArrayShape(heap[LoadedProcessors[n]].fft_result[1].of)
                    # ArrayShape(heap[LoadedProcessors[1]].fft_result[1].of)
       THEN /\ ret' = Ret("mix_images", FALSE)
            /\ UNCHANGED <<mixer, mixers, output_images>>
       ELSE /\ mixer' = Len(mixers) + 1
            /\ mixers' = Append(mixers, [NewFourierMixer(LoadedProcessors)
                                            EXCEPT !.weights = DefaultWeights(LoadedProcessors),
                                                   !.progress = 100])
            /\ output_images' =
                   IF port \in Ports
                   THEN [output_images EXCEPT ![port] = Some(OutputOf(Len(mixers) + 1))]
                   ELSE output_images
            /\ ret' = Ret("mix_images", TRUE)
    /\ UNCHANGED <<heap, image_processors, jobs, caller>>

\* the request settings: mode, weights (component -> list), region, output_port,
\* and the kind of callback handed to mix_images_async; region is
\* [enabled, size, type, x, y, width, height] with None for an absent key
Settings(mode, weights, region, output_port, callback) ==
    [mode |-> mode, weights |-> weights, region |-> region,
     output_port |-> output_port, callback |-> callback]

\* the indices of the loaded slots, ascending (actual_active_slots)
ActiveSlots ==
    SelectSeq([k \in 1 .. NumSlots |-> k - 1], LAMBDA i : Proc(i).image # None)

\* [all_weights[i] for i in actual_active_slots] raises IndexError
ExtractRaises(all_weights) ==
    \E n \in 1 .. Len(ActiveSlots) : ActiveSlots[n] + 1 > Len(all_weights)

Extract(all_weights) ==
    [n \in 1 .. Len(ActiveSlots) |-> all_weights[ActiveSlots[n] + 1]]

\* the mode and weights part of mix_images (lines 322-341) and of
\* mix_images_async (lines 418-436)
ConfigureWeights(mx, st) ==
    IF set_mode_raises(st.mode) THEN [mx |-> mx, raised |-> TRUE]
    ELSE LET a == IF st.mode = "magnitude_phase" THEN "magnitude" ELSE "real"
             b == IF st.mode = "magnitude_phase" THEN "phase" ELSE "imaginary"
             m1 == set_mode(mx, st.mode)
         IN  IF ExtractRaises(st.weights[a]) \/ ExtractRaises(st.weights[b])
             THEN [mx |-> m1, raised |-> TRUE]
             ELSE IF set_weights_raises(m1, a, Extract(st.weights[a]))
             THEN [mx |-> m1, raised |-> TRUE]
             ELSE LET m2 == set_weights(m1, a, Extract(st.weights[a]))
                  IN  IF set_weights_raises(m2, b, Extract(st.weights[b]))
                      THEN [mx |-> m2, raised |-> TRUE]
                      ELSE [mx |-> set_weights(m2, b, Extract(st.weights[b])),
                            raised |-> FALSE]

\* region_type as both methods build it: a dict over all four components when
\* the region carries per-component keys, else region['type']
RegionTypeOf(region) ==
    IF region.type.kind = "dict"
    THEN DictType([c \in Components |->
                      IF c \in DOMAIN region.type.value THEN region.type.value[c]
                      ELSE "inner"])
    ELSE region.type

DefaultSize == (3 * Unit) \div 10

\* mix_images lines 344-359
ConfigureRegionSync(mx, region) ==
    IF region.enabled
    THEN set_region(mx, RegionArgs(IF region.size = None THEN Some(DefaultSize) ELSE region.size,
                                   RegionTypeOf(region), TRUE, None, None, None, None))
    ELSE set_region(mx, RegionArgs(Some(DefaultSize), StrType("inner"), FALSE,
                                   None, None, None, None))

\* mix_images_async lines 438-448
ConfigureRegionAsync(mx, region) ==
    set_region(mx, RegionArgs(IF region.size = None THEN Some(DefaultSize) ELSE region.size,
                              RegionTypeOf(region), region.enabled, None, None, None, None))

\* the array compute_ifft returns for the mix of mixer m: all zeros, or not
OutputWith(m, content) == [mixer |-> m, adjusted |-> FALSE, content |-> content]

\* BackendAPI.mix_images(settings)
MixImagesSettings(st) ==
    /\ Ready
    /\ IF \/ LoadedProcessors = <<>>
          \/ \E n \in 1 .. Len(LoadedProcessors) : heap[LoadedProcessors[n]].fft_result = None
          \/ \E n \in 1 .. Len(LoadedProcessors) :
                ArrayShape(heap[LoadedProcessors[n]].fft_result[1].of)
                    # ArrayShape(heap[LoadedProcessors[1]].fft_result[1].of)
       THEN /\ ret' = Ret("mix_images", FALSE)
            /\ UNCHANGED <<mixer, mixers, output_images>>
       ELSE LET w == ConfigureWeights(NewFourierMixer(LoadedProcessors), st)
                r == ConfigureRegionSync(w.mx, st.region)
                mixed == MixOf(r.mx)
            IN  /\ mixer' = Len(mixers) + 1
                /\ IF w.raised \/ r.raised \/ mixed = "raised"
                   THEN /\ mixers' = Append(mixers, IF w.raised THEN w.mx ELSE r.mx)
                        /\ ret' = Ret("mix_images", FALSE)
                        /\ UNCHANGED output_images
                   ELSE /\ mixers' = Append(mixers, [r.mx EXCEPT !.progress = 100])
                        /\ output_images' =
                               IF st.output_port \in Ports
                               THEN [output_images EXCEPT ![st.output_port] =
                                        Some(OutputWith(Len(mixers) + 1,
                                                        Normalize(Inverse(mixed))))]
                               ELSE output_images
                        /\ ret' = RetArray("mix_images",
                                           normalize_for_display(Normalize(Inverse(mixed))))
    /\ UNCHANGED <<heap, image_processors, jobs, caller>>

\* BackendAPI.mix_images_async(settings, callback): ret is a failure when the
\* callback received the failure result in the call itself (line 411), a
\* success when the thread was started
MixImagesAsyncSettings(st) ==
    /\ Ready
    /\ IF LoadedProcessors = <<>>
       THEN /\ ret' = IF st.callback = "one_arg"
                      THEN Raised("mix_images_async")
                      ELSE Ret("mix_images_async", FALSE)
            /\ UNCHANGED <<mixer, mixers, jobs, caller>>
       ELSE LET w == ConfigureWeights(NewFourierMixer(LoadedProcessors), st)
                r == ConfigureRegionAsync(w.mx, st.region)
            IN  /\ mixer' = Len(mixers) + 1
                /\ IF w.raised \/ r.raised \/ set_output_port_raises(st.output_port + 1)
                   THEN /\ mixers' = Append(mixers, IF w.raised THEN w.mx ELSE r.mx)
                        /\ ret' = Raised("mix_images_async")
                        /\ UNCHANGED <<jobs, caller>>
                   ELSE /\ mix_and_compute_async(
                               Append(mixers, set_output_port(r.mx, st.output_port + 1)),
                               Len(mixers) + 1, "async_callback", st.output_port)
                        /\ ret' = Ret("mix_images_async", TRUE)
    /\ UNCHANGED <<heap, image_processors, output_images>>

\* BackendAPI.get_output_image(output_port) on the ports outs
get_output_image(outs, output_port) ==
    IF ~(0 <= output_port /\ output_port <= 1) THEN Ret("get_output_image", FALSE)
    ELSE IF outs[output_port] = None THEN Ret("get_output_image", FALSE)
    ELSE RetArray("get_output_image",
                  normalize_for_display(IF "content" \in DOMAIN outs[output_port][1]
                                        THEN outs[output_port][1].content
                                        ELSE "array"))

GetOutputImage(output_port) ==
    /\ Ready
    /\ ret' = get_output_image(output_images, output_port)
    /\ UNCHANGED <<heap, image_processors, mixer, mixers, output_images, jobs, caller>>

\* BackendAPI.apply_brightness_contrast with image_index 4 or 5 (an output port)
\* and a brightness / contrast pair that changes the array
ApplyBrightnessContrastOutput(image_index) ==
    /\ Ready
    /\ LET output_port == image_index - 4
       IN  IF output_images[output_port] = None
           THEN /\ ret' = Ret("apply_brightness_contrast", FALSE)
                /\ UNCHANGED output_images
           ELSE /\ output_images' =
                       [output_images EXCEPT ![output_port] =
                           Some([output_images[output_port][1] EXCEPT !.adjusted = TRUE])]
                /\ ret' = Ret("apply_brightness_contrast", TRUE)
    /\ UNCHANGED <<heap, image_processors, mixer, mixers, jobs, caller>>

\* BackendAPI.reset: four new ImageProcessor objects, no mixer, empty ports
Reset ==
    /\ Ready
    /\ Len(heap) < NumSlots * (MaxResets + 1)
    /\ heap' = heap \o [k \in 1 .. NumSlots |-> NewImageProcessor]
    /\ image_processors' = [k \in 1 .. NumSlots |-> Len(heap) + k]
    /\ mixer' = 0
    /\ output_images' = [p \in Ports |-> None]
    /\ ret' = Ret("reset", TRUE)
    /\ UNCHANGED <<mixers, jobs, caller>>

----------------------------------------------------------------------------
(* Specifications *)

\* the array the clients of the job controller load
JobArrays == { a \in Arrays : a.id = 1 }

Next ==
    \/ \E a \in JobArrays : LoadImageFromArray(0, a)
    \/ ResizeAllImages
    \/ \E port \in Ports : Len(mixers) < MaxMixers /\ MixImagesAsync(port)
    \/ CancelMixing
    \/ \E j \in 1 .. MaxMixers : Worker(j)
    \/ \E j \in 1 .. MaxMixers : AsyncCallback(j)

\* One FourierMixer, constructed over one ImageProcessor that holds a loaded
\* image and has, or has not, computed its spectrum
MixerInit ==
    \E has_fft \in BOOLEAN :
        /\ heap = [k \in 1 .. NumSlots |->
                      IF k = 1
                      THEN IF has_fft
                           THEN compute_fft(load_image(NewImageProcessor,
                                                       CHOOSE a \in Arrays : a.id = 1), FALSE)
                           ELSE load_image(NewImageProcessor, CHOOSE a \in Arrays : a.id = 1)
                      ELSE NewImageProcessor]
        /\ image_processors = [k \in 1 .. NumSlots |-> k]
        /\ mixer = 0
        /\ mixers = <<NewFourierMixer(<<1>>)>>
        /\ output_images = [p \in Ports |-> None]
        /\ jobs = <<>>
        /\ caller = [pc |-> "ready", m |-> 0]
        /\ ret = Ret("init", TRUE)

MixerNext ==
    \/ MixAndComputeAsync(1)
    \/ JoinReturns
    \/ CancelOperation(1)
    \/ \E j \in 1 .. MaxJobs : Worker(j)
    \/ \E j \in 1 .. MaxJobs : ClientCallback(j)

MixerSpec == MixerInit /\ [][MixerNext]_vars

Spec == Init /\ [][Next]_vars

\* server.py upload_image: load_image_from_array, then resize_all_images
UploadImage(slot_id, img_array) ==
    /\ Ready
    /\ LET loaded == SetProc(slot_id, convert_to_grayscale(load_image(Proc(slot_id), img_array)))
           objs == { k \in DOMAIN heap : k \in { image_processors[i + 1] : i \in Slots }
                                          /\ loaded[k].image # None }
           min_height == Min({ loaded[k].image[1].shape[1] : k \in objs })
           min_width == Min({ loaded[k].image[1].shape[2] : k \in objs })
       IN  heap' = [k \in DOMAIN heap |->
                       IF k \in objs
                       THEN compute_fft(resize_image(loaded[k], <<min_width, min_height>>), FALSE)
                       ELSE loaded[k]]
    /\ UNCHANGED <<image_processors, mixer, mixers, output_images, jobs, caller, ret>>

PortNext ==
    \/ \E a \in JobArrays : UploadImage(0, a)
    \/ \E port \in Ports : Len(mixers) < MaxRequests /\ MixImagesAsync(port)
    \/ \E port \in Ports : Len(mixers) < MaxRequests /\ MixImages(port)
    \/ CancelMixing
    \/ \E image_index \in 4 .. 5 : ApplyBrightnessContrastOutput(image_index)
    \/ Reset
    \/ \E j \in 1 .. MaxRequests : Worker(j)
    \/ \E j \in 1 .. MaxRequests : AsyncCallback(j)

PortSpec == Init /\ [][PortNext]_vars


TargetSizes == { <<1, 2>> }

SlotNext ==
    \/ \E i \in UsedSlots, a \in Arrays : LoadImage(i, a)
    \/ \E i \in UsedSlots, a \in Arrays : LoadImageFromArray(i, a)
    \/ ResizeAllImages
    \/ \E i \in UsedSlots, a \in Arrays : ProcLoadImage(i, a)
    \/ \E i \in UsedSlots : ProcConvertToGrayscale(i)
    \/ \E i \in UsedSlots, t \in TargetSizes : ProcResizeImage(i, t)
    \/ \E i \in UsedSlots, f \in BOOLEAN : ProcComputeFFT(i, f)

SlotSpec == Init /\ [][SlotNext]_vars

\* the slots under every operation of their ImageProcessor objects
CacheNext ==
    \/ \E i \in UsedSlots, a \in Arrays : ProcLoadImage(i, a)
    \/ \E i \in UsedSlots : ProcConvertToGrayscale(i)
    \/ \E i \in UsedSlots, t \in TargetSizes : ProcResizeImage(i, t)
    \/ \E i \in UsedSlots : ProcApplyBrightnessContrast(i)
    \/ \E i \in UsedSlots : ProcResetToOriginal(i)
    \/ \E i \in UsedSlots, f \in BOOLEAN : ProcComputeFFT(i, f)

CacheSpec == Init /\ [][CacheNext]_vars

\* the weight vectors a client passes for n processors: all 0.5
UniformWeights(n) == { [k \in 1 .. n |-> Half] }

\* slots of whatever shapes, and a client that constructs a FourierMixer over
\* them, sets weights and mixes
ShapeNext ==
    \/ \E i \in UsedSlots, a \in Arrays : LoadImageFromArray(i, a)
    \/ \E i \in UsedSlots, t \in TargetSizes : ProcResizeImage(i, t)
    \/ \E i \in UsedSlots : ProcComputeFFT(i, FALSE)
    \/ Len(mixers) < MaxRequests /\ Construct
    \/ \E m \in 1 .. MaxRequests, c \in ModeComponents("magnitude_phase"),
          ws \in UniformWeights(1) \cup UniformWeights(MaxSlot + 1) : SetWeights(m, c, ws)
    \/ \E m \in 1 .. MaxRequests : MixComponents(m)

ShapeSpec == Init /\ [][ShapeNext]_vars

\* a region of the settings that leaves every key out but 'enabled': False
NoRegion ==
    [enabled |-> FALSE, size |-> None, type |-> StrType("inner"),
     x |-> None, y |-> None, width |-> None, height |-> None]

\* the weight lists of the requests: the default 0.5 for every slot, a
\* negative weight for slot 0, an empty list
WeightLists == { <<Half, Half, Half, Half>>, <<-Half, Half, Half, Half>>, <<>> }

\* requests, valid ones and ones with an invalid mode, invalid weights or an
\* invalid output port, with a callback of one parameter or of any number
RejectSettings ==
    { Settings(mode, [c \in Components |-> ws], NoRegion, port, cb) :
        mode \in {"magnitude_phase", "bad_mode"}, ws \in WeightLists,
        port \in {0, NumPorts}, cb \in {"one_arg", "any_args"} }

RejectNext ==
    \/ \E i \in UsedSlots, a \in Arrays : LoadImageFromArray(i, a)
    \/ \E i \in UsedSlots : ProcComputeFFT(i, FALSE)
    \/ \E st \in RejectSettings : Len(mixers) < MaxRequests /\ MixImagesSettings(st)
    \/ \E st \in RejectSettings : Len(mixers) < MaxRequests /\ MixImagesAsyncSettings(st)
    \/ \E j \in 1 .. MaxRequests : Worker(j)
    \/ \E j \in 1 .. MaxRequests : AsyncCallback(j)

RejectSpec == Init /\ [][RejectNext]_vars

\* a FourierMixer constructed over one or more processors, each holding the
\* same image and its spectrum
ConfigInit ==
    \E n \in 1 .. MaxSlot + 1 :
        /\ heap = [k \in 1 .. NumSlots |->
                      IF k <= n
                      THEN compute_fft(load_image(NewImageProcessor,
                                                  CHOOSE a \in Arrays : a.id = 1), FALSE)
                      ELSE NewImageProcessor]
        /\ image_processors = [k \in 1 .. NumSlots |-> k]
        /\ mixer = 0
        /\ mixers = <<NewFourierMixer([k \in 1 .. n |-> k])>>
        /\ output_images = [p \in Ports |-> None]
        /\ jobs = <<>>
        /\ caller = [pc |-> "ready", m |-> 0]
        /\ ret = Ret("init", TRUE)

\* the weight vectors a client passes: of every length up to one more than the
\* number of processors, with entries -0.5, 0 and 0.5
WeightVectors == UNION { [1 .. n -> {-Half, 0, Half}] : n \in 0 .. MaxSlot + 2 }

\* the component names a client passes, one of them not a component
ComponentNames == {"magnitude", "imaginary", "alpha"}

WeightNext ==
    \/ \E c \in ComponentNames, ws \in WeightVectors : SetWeights(1, c, ws)
    \/ \E mode \in {"magnitude_phase", "real_imaginary", "bad_mode"} : SetMode(1, mode)
    \/ MixComponents(1)

WeightSpec == ConfigInit /\ [][WeightNext]_vars

\* the arguments a client passes to set_region: fractions inside and outside
\* [0, 1], absent ones, region types as a string or as a dict
Quarter == Unit \div 4

RegionArgSet ==
    { RegionArgs(size, rt, enabled, x, y, width, height) :
        size \in {None, Some(2 * Quarter), Some(5 * Quarter)},
        rt \in {StrType("inner"), StrType("outer"), StrType("middle"),
                DictType([c \in {"phase"} |-> "outer"])},
        enabled \in BOOLEAN,
        x \in {None, Some(Quarter), Some(-Quarter)},
        y \in {None, Some(5 * Quarter)},
        width \in {None, Some(3 * Quarter), Some(5 * Quarter)},
        height \in {None, Some(Quarter)} }

RegionNext ==
    \/ \E a \in RegionArgSet : SetRegion(1, a)
    \/ \E mode \in {"magnitude_phase", "real_imaginary"} : SetMode(1, mode)

RegionSpec == ConfigInit /\ [][RegionNext]_vars

\* requests with all weights 0 or all weights 0.5, in either mode, to either port
ZeroSettings ==
    { Settings(mode, [c \in Components |-> ws], NoRegion, port, "one_arg") :
        mode \in {"magnitude_phase", "real_imaginary"},
        ws \in { <<0, 0, 0, 0>>, <<Half, Half, Half, Half>> },
        port \in Ports }

\* weight vectors that are all 0 or all 0.5
ZeroVectors ==
    { [k \in 1 .. n |-> w] : n \in 1 .. MaxSlot + 1, w \in {0, Half} }

\* uploaded images, clients that construct a FourierMixer, set its mode and
\* weights and mix, and clients of mix_images
ZeroNext ==
    \/ \E i \in UsedSlots, a \in Arrays : UploadImage(i, a)
    \/ Len(mixers) < MaxRequests /\ Construct
    \/ \E m \in 1 .. MaxRequests, c \in {"magnitude", "real"}, ws \in ZeroVectors :
          SetWeights(m, c, ws)
    \/ \E m \in 1 .. MaxRequests, mode \in {"magnitude_phase", "real_imaginary"} :
          SetMode(m, mode)
    \/ \E m \in 1 .. MaxRequests : MixComponents(m)
    \/ \E m \in 1 .. MaxRequests : ComputeIfft(m)
    \/ \E st \in ZeroSettings : Len(mixers) < MaxRequests /\ MixImagesSettings(st)

ZeroSpec == Init /\ [][ZeroNext]_vars

\* regions of a request: enabled or not, type inner or outer, with or without
\* a centre (x, y) and with or without a width and height
RegionChoices ==
    { [enabled |-> e, size |-> None, type |-> StrType(t),
       x |-> p, y |-> p, width |-> w, height |-> w] :
        e \in BOOLEAN, t \in {"inner", "outer"},
        p \in {None, Some(Quarter)}, w \in {None, Some(3 * Quarter)} }

\* requests with the default weights that differ in their region
RegionSettings ==
    { Settings("magnitude_phase", [c \in Components |-> <<Half, Half, Half, Half>>],
               region, 0, "any_args") : region \in RegionChoices }

\* uploaded images and clients of mix_images and mix_images_async whose
\* requests carry a region
ForwardNext ==
    \/ \E i \in UsedSlots, a \in Arrays : UploadImage(i, a)
    \/ \E st \in RegionSettings : Len(mixers) < MaxRequests /\ MixImagesSettings(st)
    \/ \E st \in RegionSettings : Len(mixers) < MaxRequests /\ MixImagesAsyncSettings(st)
    \/ \E j \in 1 .. MaxRequests : Worker(j)
    \/ \E j \in 1 .. MaxRequests : AsyncCallback(j)

ForwardSpec == Init /\ [][ForwardNext]_vars

\* the arguments of the set_region calls of a client that looks at masks
MaskArgSet ==
    { RegionArgs(size, StrType(t), enabled, x, y, width, height) :
        size \in {None, Some(4 * Quarter)},
        t \in {"inner", "outer"},
        enabled \in BOOLEAN,
        x \in {None, Some(Quarter)},
        y \in {None, Some(Quarter), Some(3 * Quarter)},
        width \in {None, Some(2 * Quarter)},
        height \in {None, Some(3 * Quarter)} }

\* the shapes masks are built for
ShapeSet == (1 .. MaxDim) \X (1 .. MaxDim)

\* a client that configures the region of its mixer and asks for the mask
MaskNext ==
    \/ \E a \in MaskArgSet : SetRegion(1, a)
    \/ GetMaskVisualization(1)

MaskSpec == ConfigInit /\ [][MaskNext]_vars

\* a FourierMixer constructed over one or more processors, each holding an
\* array with known pixels and its spectrum
PixelInit ==
    \E n \in 1 .. MaxSlot + 1 :
        \E arrays \in [1 .. n -> PixelArrays] :
            /\ heap = [k \in 1 .. NumSlots |->
                          IF k <= n
                          THEN compute_fft(load_image(NewImageProcessor, arrays[k]), FALSE)
                          ELSE NewImageProcessor]
            /\ image_processors = [k \in 1 .. NumSlots |-> k]
            /\ mixer = 0
            /\ mixers = <<NewFourierMixer([k \in 1 .. n |-> k])>>
            /\ output_images = [p \in Ports |-> None]
            /\ jobs = <<>>
            /\ caller = [pc |-> "ready", m |-> 0]
            /\ ret = Ret("init", TRUE)

\* the set_region calls of a client that mixes: a region over the left column
\* of a 2x2 spectrum, on or off, inner or outer for all components or outer
\* for the phase only
PathArgSet ==
    { RegionArgs(Some(4 * Quarter), rt, enabled, Some(Quarter), None, None, None) :
        rt \in {StrType("inner"), StrType("outer"), DictType([c \in {"phase"} |-> "outer"])},
        enabled \in BOOLEAN }

\* a client that sets weights and region of its mixer and mixes
PathNext ==
    \/ \E c \in {"magnitude", "phase"}, ws \in ZeroVectors : SetWeights(1, c, ws)
    \/ \E a \in PathArgSet : SetRegion(1, a)
    \/ MixSpectrum(1)

PathSpec == PixelInit /\ [][PathNext]_vars

\* one FourierMixer whose client sets mode, weights and region, mixes in its
\* own thread and once in a worker thread, and cancels
FrameNext ==
    \/ SetWeights(1, "magnitude", <<Half>>)
    \/ SetMode(1, "real_imaginary")
    \/ SetRegion(1, RegionArgs(Some(2 * Quarter), StrType("outer"), TRUE,
                               None, None, None, None))
    \/ MixComponents(1)
    \/ ComputeIfft(1)
    \/ jobs = <<>> /\ MixAndComputeAsync(1)
    \/ CancelOperation(1)
    \/ \E j \in 1 .. MaxJobs : Worker(j)
    \/ \E j \in 1 .. MaxJobs : ClientCallback(j)

FrameSpec == MixerInit /\ [][FrameNext]_vars

\* an ImageProcessor that loads arrays with known pixels, transforms them and
\* is asked for the reconstruction
RoundTripNext ==
    \/ \E a \in PixelArrays : ProcLoadImage(0, a)
    \/ ProcComputeFFT(0, TRUE)
    \/ PerfectReconstruction(0)

RoundTripSpec == Init /\ [][RoundTripNext]_vars

\* a FourierMixer over one processor that holds an array with known pixels
\* and its spectrum
ImageInit ==
    \E a \in PixelArrays :
        /\ heap = [k \in 1 .. NumSlots |->
                      IF k = 1 THEN compute_fft(load_image(NewImageProcessor, a), FALSE)
                      ELSE NewImageProcessor]
        /\ image_processors = [k \in 1 .. NumSlots |-> k]
        /\ mixer = 0
        /\ mixers = <<NewFourierMixer(<<1>>)>>
        /\ output_images = [p \in Ports |-> None]
        /\ jobs = <<>>
        /\ caller = [pc |-> "ready", m |-> 0]
        /\ ret = Ret("init", TRUE)

\* a client that sets mode and weights of its mixer and asks for the image
ImageNext ==
    \/ \E c \in {"magnitude", "phase"}, w \in {0, Half, 2 * Half} : SetWeights(1, c, <<w>>)
    \/ \E mode \in {"magnitude_phase", "real_imaginary"} : SetMode(1, mode)
    \/ ComputeImage(1)

ImageSpec == ImageInit /\ [][ImageNext]_vars

\* requests with the default weights that differ in their output port: 0, 1
\* and the first number that is no port
PortSettings ==
    { Settings("magnitude_phase", [c \in Components |-> ws], NoRegion, port, "any_args") :
        ws \in { <<0, 0, 0, 0>>, <<Half, Half, Half, Half>> }, port \in 0 .. NumPorts }

\* uploaded images and clients of mix_images and get_output_image
StoreNext ==
    \/ \E i \in UsedSlots, a \in Arrays : UploadImage(i, a)
    \/ \E st \in PortSettings : Len(mixers) < MaxRequests /\ MixImagesSettings(st)
    \/ \E p \in 0 .. NumPorts : GetOutputImage(p)

StoreSpec == Init /\ [][StoreNext]_vars

\* the arrays np.array(Image.open(file)) hands to upload_image: those of
\* Arrays and a grayscale array with an alpha channel (PIL mode "LA")
UploadArrays ==
    Arrays \cup { [id |-> 3, shape |-> <<2, 2>>, ch |-> 2, resized |-> FALSE, adjusted |-> FALSE] }

\* uploads, each followed by resize_all_images, and requests to mix
UploadNext ==
    \/ \E i \in UsedSlots, a \in UploadArrays : UploadImage(i, a)
    \/ \E st \in PortSettings : Len(mixers) < MaxRequests /\ MixImagesSettings(st)

UploadSpec == Init /\ [][UploadNext]_vars

\* the scheduler runs every started thread: a worker that can step does step
FairMixerSpec ==
    MixerSpec /\ WF_vars(\E j \in 1 .. MaxJobs : Worker(j) \/ ClientCallback(j))

\* a job that has not yet evaluated its post-mix checkpoint (line 389)
BeforeFirstCheckpoint(j) == jobs[j].pc \in {"w441", "w442", "c380", "c386", "c389"}

\* tests/test_async_operations.py test_cancellation: images loaded and resized,
\* mix_images_async (line 102), cancel_mixing (line 109) while job 1 has not
\* passed its first checkpoint, mix_images_async (line 125)
CancelNext ==
    \/ \E a \in JobArrays : mixers = <<>> /\ LoadedSlots = {} /\ UploadImage(0, a)
    \/ mixers = <<>> /\ LoadedSlots # {} /\ MixImagesAsync(0)
    \/ /\ Len(mixers) = 1
       /\ ret.op = "mix_images_async"
       /\ BeforeFirstCheckpoint(1)
       /\ CancelMixing
    \/ Len(mixers) = 1 /\ ret.op = "cancel_mixing" /\ MixImagesAsync(0)
    \/ \E j \in 1 .. MaxMixers : Worker(j)
    \/ \E j \in 1 .. MaxMixers : AsyncCallback(j)

CancelSpec == Init /\ [][CancelNext]_vars

\* tests/test_async_operations.py test_rapid_setting_changes: images loaded and
\* resized, then mix_images_async again and again (line 176), each call while
\* the job of the call before is still running
RapidNext ==
    \/ \E a \in JobArrays : mixers = <<>> /\ LoadedSlots = {} /\ UploadImage(0, a)
    \/ \E port \in Ports :
          /\ LoadedSlots # {}
          /\ Len(mixers) < MaxMixers
          /\ jobs # <<>> => Alive(Len(jobs))
          /\ MixImagesAsync(port)
    \/ \E j \in 1 .. MaxMixers : Worker(j)
    \/ \E j \in 1 .. MaxMixers : AsyncCallback(j)

RapidSpec == Init /\ [][RapidNext]_vars

----------------------------------------------------------------------------
(* The claims *)

\* a worker inside compute_ifft (lines 380-423)
InComputeIfft(j) == jobs[j].pc \in {"c380", "c386", "c389", "c400", "c404", "c412"}

\* C1: for one FourierMixer, at most one worker is executing compute_ifft at a
\* time, whatever the interleaving of starts, cancels and worker steps.
C1_SingleFlight ==
    \A j1 \in 1 .. Len(jobs), j2 \in 1 .. Len(jobs) :
        (j1 # j2 /\ jobs[j1].mixer = jobs[j2].mixer)
            => ~(InComputeIfft(j1) /\ InComputeIfft(j2))

\* the callback of job j was invoked with a successful result
DeliveredSuccess(j) ==
    \E n \in 1 .. Len(jobs[j].delivered) : jobs[j].delivered[n] = "success"

\* the target port of job j holds the output of job j
StoredBy(j) == output_images[jobs[j].port] = Some(OutputOf(jobs[j].mixer))

\* cancel_mixing of test_cancellation has been called
CancelRequested == jobs # <<>> /\ (ret.op = "cancel_mixing" \/ Len(mixers) = 2)

\* C2: mix_images_async (job 1), cancel_mixing before job 1 passed its first
\* checkpoint, mix_images_async (job 2): job 1's callback never delivers a
\* success and job 1 never writes a port; job 2 ends having delivered a success
\* and its target port holds its output.
C2_CancelThenRestart ==
    /\ CancelRequested => ~DeliveredSuccess(1) /\ ~StoredBy(1)
    /\ (Len(jobs) = 2 /\ ~Alive(2)) =>
           /\ jobs[2].delivered = <<"success">>
           /\ ~Alive(1) => StoredBy(2)

\* C3: of the requests made in quick succession, each while the job of the one
\* before was running, only the last one's callback delivers a success (the
\* step in which async_callback writes the port).
C3_OnlyLastDelivers ==
    \A j \in 1 .. Len(jobs) : j < Len(jobs) => ~DeliveredSuccess(j)

\* the step is job j handing a real output to async_callback, which stores it
\* in port p, the port the job targets
JobStores(j, p) ==
    /\ At(j, "w448")
    /\ jobs[j].callback = "async_callback"
    /\ jobs[j].port = p
    /\ jobs[j].output = "array"
    /\ jobs'[j].pc = "w453"
    /\ output_images'[p] = Some(OutputOf(jobs[j].mixer))

\* C4, as stated: output_images[p] changes only in a step in which a mix job
\* targeting p completes (the asynchronous job's callback, or the synchronous
\* mix_images); no other operation overwrites a port.
C4_OnlyCompletedJobWrites ==
    [][\A p \in Ports :
          output_images'[p] # output_images[p] =>
              \/ \E j \in 1 .. Len(jobs) : JobStores(j, p)
              \/ MixImages(p)]_vars

\* C4, amended: output_images[p] changes only in a step in which a job
\* targeting p that passed both checkpoints and the test of line 447 stores its
\* output, in mix_images on p, in apply_brightness_contrast on 4 + p, or in
\* reset; a job that returned None or raised never changes a port.
C4_PortWriters ==
    [][\A p \in Ports :
          output_images'[p] # output_images[p] =>
              \/ \E j \in 1 .. Len(jobs) : JobStores(j, p)
              \/ MixImages(p)
              \/ ApplyBrightnessContrastOutput(4 + p)
              \/ Reset]_vars

\* C4 witness: a job has ended and its target port holds its output, the other
\* port holds nothing
C4_Witness ==
    \E j \in 1 .. Len(jobs) :
        /\ ~Alive(j)
        /\ StoredBy(j)
        /\ output_images[1 - jobs[j].port] = None

\* a worker between its own reset of progress (line 380) and the return of
\* compute_ifft
InRun(j) == jobs[j].pc \in {"c386", "c389", "c400", "c404", "c412"}

\* C5: while a job runs, the value get_progress returns is one of 0, 10, 50,
\* 70, 90, 100 and no step makes it smaller.
C5_ProgressMonotonic ==
    [][\A j \in 1 .. Len(jobs) :
          InRun(j) =>
              /\ get_progress(jobs[j].mixer) \in {0, 10, 50, 70, 90, 100}
              /\ mixers'[jobs[j].mixer].progress >= get_progress(jobs[j].mixer)]_vars

AllWorkersEnded == \A j \in 1 .. Len(jobs) : ~Alive(j)

\* C6: every job returns the controller to Idle: whenever is_processing is true
\* it later becomes false, be the job completed, cancelled or failed, and
\* is_processing is false once all workers have ended.
C6_ReturnsToIdle ==
    /\ [](AllWorkersEnded => ~is_busy(1))
    /\ (is_busy(1) ~> ~is_busy(1))

\* C6 witness: a job that raised, a job that was cancelled at a checkpoint, or
\* a job that completed has ended, as have all others, and the mixer is idle
C6_Witness ==
    /\ \E j \in 1 .. Len(jobs) : jobs[j].output = "raised" \/ jobs[j].output = "None"
    /\ jobs # <<>>
    /\ AllWorkersEnded
    /\ ~is_busy(1)

\* C7: a job whose computation raised has, by the time its thread ends, had
\* its callback invoked.
C7_FailureDelivered ==
    \A j \in 1 .. Len(jobs) :
        (jobs[j].output = "raised" /\ ~Alive(j)) => jobs[j].delivered # <<>>

\* C8: in the step in which mix_and_compute_async starts the thread and
\* returns, the mixer is Processing with progress 0 and the cancellation flag
\* false.
C8_ProcessingOnReturn ==
    [][Len(jobs') > Len(jobs) =>
          LET m == jobs'[Len(jobs')].mixer
          IN  /\ mixers'[m].is_processing
              /\ mixers'[m].progress = 0
              /\ ~mixers'[m].is_cancelled]_vars

\* the thread of the API's current mixer has been started and has not ended
CurrentJobRunning ==
    /\ mixer # 0
    /\ mixers[mixer].processing_thread # 0
    /\ Alive(mixers[mixer].processing_thread)

\* C9: cancel_mixing reports success exactly when the current mixer's job is
\* running; reporting false it changes nothing, reporting true it only sets
\* the cancellation flag of that mixer.
C9_CancelReportsRunning ==
    [][CancelMixing =>
          /\ ret'.success <=> CurrentJobRunning
          /\ ~ret'.success => mixers' = mixers
          /\ ret'.success => mixers' = [mixers EXCEPT ![mixer].is_cancelled = TRUE]]_vars

\* C10: a slot's spectrum, when it has one, is the spectrum of the slot's
\* present image: every replacement of the image cleared the spectrum, and only
\* compute_fft on the new image set it again.
C10_SpectrumOfPresentImage ==
    \A i \in Slots :
        Proc(i).fft_result # None => Proc(i).fft_result[1].of = Proc(i).image[1]

\* C11: whenever compute_fft(force=False) would return the cached spectrum
\* (fft_cached set and fft_result present), that spectrum is the transform of
\* the slot's current image.
C11_CacheNeverStale ==
    \A i \in Slots :
        (Proc(i).fft_cached /\ Proc(i).fft_result # None)
            => Proc(i).fft_result[1].of = Proc(i).image[1]

\* the sizes _validate_uniform_sizes collects: the spectrum's shape, else the
\* image's shape, of every processor that has one
Sizes(procs) ==
    { IF heap[procs[n]].fft_result # None
      THEN heap[procs[n]].fft_result[1].shape
      ELSE heap[procs[n]].image[1].shape :
          n \in { k \in 1 .. Len(procs) : heap[procs[k]].image # None } }

\* C12: constructing a FourierMixer over loaded slots whose shapes differ
\* fails, and so does mixing the spectra of a mixer when their shapes differ.
C12_RejectsMismatch ==
    [][/\ (Construct /\ Cardinality(Sizes(LoadedProcessors)) > 1) => ~ret'.success
       /\ \A m \in 1 .. Len(mixers) :
             (MixComponents(m) /\ ret'.op = "mix_components"
                 /\ Cardinality(Sizes(mixers[m].processors)) > 1) => ~ret'.success]_vars

\* the request is one the claim lists: no loaded slot, a spectrum missing, a
\* shape mismatch, an invalid mode, invalid weights or an invalid output port
Rejectable(st) ==
    \/ LoadedProcessors = <<>>
    \/ \E n \in 1 .. Len(LoadedProcessors) : heap[LoadedProcessors[n]].fft_result = None
    \/ Cardinality(Sizes(LoadedProcessors)) > 1
    \/ set_mode_raises(st.mode)
    \/ \E c \in Components :
          Len(st.weights[c]) # NumSlots \/ \E n \in 1 .. Len(st.weights[c]) : st.weights[c][n] < 0
    \/ st.output_port \notin Ports

\* C13: a mix request of that kind is answered with a failure result: mix_images
\* returns one, mix_images_async does not leave through an exception and does
\* not report a started job, and no job ends after an exception without having
\* invoked its callback.
C13_RejectedWithFailure ==
    [][/\ \A st \in RejectSettings :
             (MixImagesSettings(st) /\ Rejectable(st)) => ret' = Ret("mix_images", FALSE)
       /\ \A st \in RejectSettings :
             (MixImagesAsyncSettings(st) /\ Rejectable(st))
                 => ret' = Ret("mix_images_async", FALSE)
       /\ \A j \in 1 .. Len(jobs) :
             (WorkerFinally(j) /\ jobs[j].output = "raised") => jobs[j].delivered # <<>>]_vars

InvalidRegionArgs(a) ==
    \/ \E v \in {a.size, a.x, a.y, a.width, a.height} : v # None /\ ~InUnit(v[1])
    \/ a.region_type.kind = "str" /\ a.region_type.value \notin {"inner", "outer"}
    \/ /\ a.region_type.kind = "dict"
       /\ \E c \in DOMAIN a.region_type.value :
             a.region_type.value[c] \notin {"inner", "outer"}

\* C15: set_region with a supplied size, width, height, x or y outside [0, 1],
\* or with an invalid region type, raises and leaves the region configuration
\* of the mixer as it was.
C15_RegionRejected ==
    [][\A a \in RegionArgSet :
          (SetRegion(1, a) /\ InvalidRegionArgs(a))
              => /\ ret' = Ret("set_region", FALSE)
                 /\ mixers' = mixers]_vars

\* the weights of the mixer's mode are all zero and a processor has a spectrum
ZeroWeighted(mx) ==
    /\ \A c \in ModeComponents(mx.mode) :
          \A n \in 1 .. Len(mx.weights[c]) : mx.weights[c][n] = 0
    /\ \E n \in 1 .. Len(mx.processors) : heap[mx.processors[n]].fft_result # None

\* the request has all weights of its mode zero and mix_images accepts it
ZeroRequest(st) ==
    /\ \A c \in ModeComponents(st.mode) :
          \A n \in 1 .. Len(st.weights[c]) : st.weights[c][n] = 0
    /\ LoadedProcessors # <<>>
    /\ \A n \in 1 .. Len(LoadedProcessors) : heap[LoadedProcessors[n]].fft_result # None
    /\ Cardinality(Sizes(LoadedProcessors)) = 1

\* mix_components and compute_ifft on zero weights return zeros
ZeroCore ==
    /\ \A m \in 1 .. Len(mixers) :
          (MixComponents(m) /\ ZeroWeighted(mixers[m]))
              => ret' = RetArray("mix_components", "zeros")
    /\ \A m \in 1 .. Len(mixers) :
          (ComputeIfft(m) /\ ZeroWeighted(mixers[m]))
              => ret' = RetArray("compute_ifft", "zeros")

ConfiguredAs(mx, region) ==
    /\ mx.region_enabled = region.enabled
    /\ region.x # None => mx.region_x = region.x[1]
    /\ region.y # None => mx.region_y = region.y[1]
    /\ region.width # None => mx.region_width = region.width[1]
    /\ region.height # None => mx.region_height = region.height[1]
    /\ \A c \in Components : mx.per_component_region[c] = RegionTypeOf(region).value

\* C17: the mixer that mix_images / mix_images_async creates for a request
\* holds exactly the region of the request's settings: enabled flag, centre x
\* and y, width, height and region type.
C17_RegionForwarded ==
    [][\A st \in RegionSettings :
          ((MixImagesSettings(st) \/ MixImagesAsyncSettings(st)) /\ ret'.success)
              => ConfiguredAs(mixers'[Len(mixers) + 1], st.region)]_vars

\* the byte mask of the configured region type: 255 where the mask of that
\* type is 1
ConfiguredMask(mx, region_type) ==
    LET mask == create_frequency_mask(mx, FirstShape(mx)[1], region_type)
    IN  Some([bin \in DOMAIN mask |-> mask[bin] * 255])

\* C18: get_mask_visualization returns the mask of the configured region
\* type: the outer mask (0 inside the rectangle, 255 outside) after
\* set_region(region_type='outer', enabled=True), the inner mask after 'inner'.
C18_MaskIsConfigured ==
    [][(/\ GetMaskVisualization(1)
        /\ mixers[1].region_enabled
        /\ \E t \in {"inner", "outer"} :
              \A c \in Components : mixers[1].per_component_region[c] = t)
          => ret'.mask = ConfiguredMask(mixers[1],
                                        mixers[1].per_component_region["magnitude"])]_vars

\* C19: for every shape and region configuration create_frequency_mask
\* yields only 0 and 1; with the region enabled the inner and outer masks add
\* up to 1 at every bin, with the region disabled both are all ones.
C19_MasksComplement ==
    \A shape \in ShapeSet :
        LET inner == create_frequency_mask(mixers[1], shape, "inner")
            outer == create_frequency_mask(mixers[1], shape, "outer")
        IN  /\ DOMAIN inner = Bins(shape) /\ DOMAIN outer = Bins(shape)
            /\ \A bin \in Bins(shape) : inner[bin] \in {0, 1} /\ outer[bin] \in {0, 1}
            /\ mixers[1].region_enabled
                   => \A bin \in Bins(shape) : inner[bin] + outer[bin] = 1
            /\ ~mixers[1].region_enabled
                   => \A bin \in Bins(shape) : inner[bin] = 1 /\ outer[bin] = 1

\* C19 witness: the region is enabled, a mask was asked for, and for some
\* shape the inner mask has a bin inside and a bin outside the rectangle
C19_Witness ==
    /\ ret.op = "get_mask_visualization"
    /\ mixers[1].region_enabled
    /\ \E shape \in ShapeSet :
          LET inner == create_frequency_mask(mixers[1], shape, "inner")
          IN  \E b1, b2 \in Bins(shape) : inner[b1] = 1 /\ inner[b2] = 0

\* C20: with the region enabled, for every shape the rectangle of
\* create_frequency_mask is the one built from rounded extents and a rounded
\* centre: rows_r = max(1, round(rows*height)), cols_r = max(1,
\* round(cols*width)), centre (round(rows*y), round(cols*x)), bounds
\* [cr - rows_r/2, cr + rows_r/2) x [cc - cols_r/2, cc + cols_r/2), clamped.
C20_RoundedRectangle ==
    LET Round(n, f) ==
            LET q == (n * f) \div Unit
                r == (n * f) % Unit
            IN  IF 2 * r < Unit THEN q
                ELSE IF 2 * r > Unit THEN q + 1
                ELSE IF q % 2 = 0 THEN q ELSE q + 1
        Stated(mx, shape) ==
            LET rows_r == Maximum(1, Round(shape[1], mx.region_height))
                cols_r == Maximum(1, Round(shape[2], mx.region_width))
                cr == Round(shape[1], mx.region_y)
                cc == Round(shape[2], mx.region_x)
            IN  [row_start |-> Maximum(0, cr - rows_r \div 2),
                 row_end |-> Minimum(shape[1], cr + rows_r \div 2),
                 col_start |-> Maximum(0, cc - cols_r \div 2),
                 col_end |-> Minimum(shape[2], cc + cols_r \div 2)]
    IN  mixers[1].region_enabled
            => \A shape \in ShapeSet :
                  { bin \in Bins(shape) : InSlice(Rectangle(mixers[1], shape), bin) }
                      = { bin \in Bins(shape) : InSlice(Stated(mixers[1], shape), bin) }

\* C21: in magnitude_phase mode, whenever the magnitude weights equal the
\* phase weights, the direct complex-sum path and the separate magnitude /
\* phase path give the same mixed spectrum, for all spectra, weights and
\* region settings.
C21_PathsAgree ==
    (/\ mixers[1].mode = "magnitude_phase"
     /\ mixers[1].weights["magnitude"] = mixers[1].weights["phase"])
        => direct_mix(mixers[1], FirstShape(mixers[1])[1])
               = separate_mix(mixers[1], FirstShape(mixers[1])[1])

\* the mode, weights and region settings of a mixer
MixerInputs(mx) ==
    [mode |-> mx.mode, weights |-> mx.weights, region_enabled |-> mx.region_enabled,
     region_size |-> mx.region_size, region_x |-> mx.region_x, region_y |-> mx.region_y,
     region_width |-> mx.region_width, region_height |-> mx.region_height,
     per_component_region |-> mx.per_component_region]

\* a step of mix_components or of compute_ifft, in the client's thread or in
\* a worker thread
MixingStep ==
    \/ MixComponents(1)
    \/ ComputeIfft(1)
    \/ \E j \in 1 .. MaxJobs :
          \/ IfftBegin(j) \/ IfftMix(j) \/ IfftCheckpoint1(j)
          \/ IfftInverse(j) \/ IfftCheckpoint2(j) \/ IfftNormalize(j)

\* C22: mix_components and compute_ifft, successful, cancelled or failed,
\* leave every slot's image, spectrum and cache flag and the mixer's mode,
\* weights and region settings as they were.
C22_NoSideEffects ==
    [][MixingStep => /\ heap' = heap
                     /\ image_processors' = image_processors
                     /\ MixerInputs(mixers'[1]) = MixerInputs(mixers[1])]_vars

\* C22 witness: compute_ifft has returned an image for a mixer whose weights,
\* mode and region were set by its client
C22_Witness ==
    /\ ret = RetArray("compute_ifft", "array")
    /\ mixers[1].weights["magnitude"] = <<Half>>
    /\ mixers[1].per_component_region["phase"] = "outer"
    /\ mixers[1].region_enabled

Constant(y) == \A rc1, rc2 \in DOMAIN y : y[rc1] = y[rc2]

\* C24: a compute_ifft result that is not cancelled lies in [0, 255] and has
\* minimum 0; its maximum is 255 unless the inverse-transformed image is
\* constant, and then the result is all zero, without a division by zero.
C24_OutputRange ==
    /\ LET output == OutputImage(mixers[1])
       IN  output # None
          => LET y == InverseImage(mixers[1])
                 out == output[1]
             IN  /\ \A rc \in DOMAIN out :
                       out[rc].den > 0 /\ 0 <= out[rc].num /\ out[rc].num <= 255 * out[rc].den
                 /\ \E rc \in DOMAIN out : out[rc].num = 0
                 /\ ~Constant(y) => \E rc \in DOMAIN out : out[rc].num = 255 * out[rc].den
                 /\ Constant(y) => \A rc \in DOMAIN out : out[rc].num = 0
    /\ (ret.op = "compute_ifft" /\ ret.success)
          => /\ \A rc \in DOMAIN ret.output_image :
                   /\ 0 <= ret.output_image[rc].num
                   /\ ret.output_image[rc].num <= 255 * ret.output_image[rc].den
             /\ \E rc \in DOMAIN ret.output_image : ret.output_image[rc].num = 0

\* C24 witness: compute_ifft has returned an image with the values 0 and 255
\* for a spectrum mixed with different magnitude and phase weights
C24_Witness ==
    /\ ret.op = "compute_ifft" /\ ret.success
    /\ mixers[1].weights["magnitude"] # mixers[1].weights["phase"]
    /\ ret.output_image = OutputImage(mixers[1])[1]
    /\ \E rc \in DOMAIN ret.output_image :
          ret.output_image[rc].num = 255 * ret.output_image[rc].den

\* job j has left compute_ifft at a checkpoint and its thread has not ended
Stopped(j) == j \in DOMAIN jobs /\ Alive(j) /\ jobs[j].output = "None"

\* C25: a job whose flag is set at the post-mix checkpoint stops with no
\* result and progress at most 10; one whose flag is set at the
\* post-inverse-transform checkpoint stops with no result and progress at
\* most 70; progress does not rise while a stopped job ends; a job that
\* passes both checkpoints reaches progress 100 and returns a result.
C25_Checkpoints ==
    [][\A j \in 1 .. MaxJobs :
          /\ (IfftCheckpoint1(j) /\ mixers[jobs[j].mixer].is_cancelled)
                => jobs'[j].output = "None" /\ mixers'[jobs[j].mixer].progress <= 10
          /\ (IfftCheckpoint2(j) /\ mixers[jobs[j].mixer].is_cancelled)
                => jobs'[j].output = "None" /\ mixers'[jobs[j].mixer].progress <= 70
          /\ Stopped(j)
                => mixers'[jobs[j].mixer].progress <= mixers[jobs[j].mixer].progress
          /\ IfftNormalize(j)
                => jobs'[j].output = "array" /\ mixers'[jobs[j].mixer].progress = 100]_vars

\* C26: with the region enabled, for every shape the rectangle holds at
\* least one bin: the inner mask is not all zero, the outer mask not all ones.
C26_RectangleNotEmpty ==
    mixers[1].region_enabled
        => \A shape \in ShapeSet :
              /\ \E bin \in Bins(shape) :
                    create_frequency_mask(mixers[1], shape, "inner")[bin] = 1
              /\ \E bin \in Bins(shape) :
                    create_frequency_mask(mixers[1], shape, "outer")[bin] = 0

\* C27: the callback of a job is invoked at most once and never with a None
\* output; BackendAPI's 'Operation was cancelled' result is never delivered.
C27_CallbackNeverNone ==
    \A j \in 1 .. Len(jobs) :
        /\ Len(jobs[j].delivered) <= 1
        /\ \A n \in 1 .. Len(jobs[j].delivered) :
              jobs[j].delivered[n] \notin {"None", "cancelled"}

\* the mixer of job j was built over ImageProcessors that reset() has since
\* replaced: the job was started before the last reset
StartedBeforeReset(j) ==
    \E n \in 1 .. Len(mixers[jobs[j].mixer].processors) :
        \A k \in 1 .. NumSlots :
            image_processors[k] # mixers[jobs[j].mixer].processors[n]

\* C28: after reset() both ports stay empty until a mix request issued after
\* the reset completes; a job started before the reset never writes a port.
C28_NoWriteAfterReset ==
    [][\A j \in 1 .. Len(jobs) :
          (Worker(j) \/ AsyncCallback(j)) /\ StartedBeforeReset(j)
              => output_images' = output_images]_vars

\* C29: whenever mix_images returns success for output_port p, the result is
\* stored in port p: a following get_output_image(p) succeeds and returns
\* that output, for every output_port of the request.
C29_SuccessMeansStored ==
    [][\A st \in PortSettings :
          (MixImagesSettings(st) /\ ret'.success)
              => /\ get_output_image(output_images', st.output_port).success
                 /\ get_output_image(output_images', st.output_port).output_array
                        = ret'.output_array
                 /\ output_images'[st.output_port][1].mixer = Len(mixers) + 1]_vars

\* mix_images answers 'Not all loaded images have FFT computed' or 'Image
\* sizes mismatch' (backend_api.py lines 303-316)
MixCheckFails ==
    \/ \E n \in 1 .. Len(LoadedProcessors) : heap[LoadedProcessors[n]].fft_result = None
    \/ \E n \in 1 .. Len(LoadedProcessors) :
          ArrayShape(heap[LoadedProcessors[n]].fft_result[1].of)
              # ArrayShape(heap[LoadedProcessors[1]].fft_result[1].of)

\* C30: after uploads that are each followed by a successful
\* resize_all_images, all loaded slots have the same image dimensions and a
\* cached spectrum of that shape computed from the current image, so
\* mix_images fails neither with 'FFT not computed' nor with a size mismatch.
C30_UniformAfterResize ==
    /\ \A i \in LoadedSlots :
          /\ Proc(i).fft_cached
          /\ Proc(i).fft_result = Some(FFT(Proc(i).image[1]))
          /\ \A j \in LoadedSlots :
                ArrayShape(Proc(i).image[1]) = ArrayShape(Proc(j).image[1])
    /\ ~MixCheckFails

====
